---------------------------- MODULE Spec2Model ----------------------------
(***************************************************************************)
(* MEPS fixed-width pipeline.                                              *)
(*                                                                         *)
(*   src/src/data/parse_ascii.py   parse_sas_instructions (the schema      *)
(*                                 extractor), process_ascii_file and      *)
(*                                 run_batch_processing (the decoder)      *)
(*   src/src/data/ingest_meps.py   download_url, ingest_group_data         *)
(*                                                                         *)
(* Text is modelled character by character: a line, a record, a column     *)
(* name and a description are sequences of one-character strings, and the  *)
(* two regular expressions, str.strip, str.startswith, int() and slicing   *)
(* are computed on those sequences.                                        *)
(*                                                                         *)
(* Three specifications share the module's variables:                      *)
(*   Spec        parse_sas_instructions, one step per line of the file     *)
(*   SpecDecode  process_ascii_file under run_batch_processing             *)
(*   SpecIngest  ingest_group_data                                         *)
(***************************************************************************)
EXTENDS Integers, Sequences, FiniteSets, TLC

VARIABLES
    \* ---- parse_sas_instructions
    text,               \* the lines of the SAS file consumed so far
    colspecs,           \* list of <<start, end>>
    names,              \* list of column names
    dtypes,             \* dict name -> "str" | "float32" (insertion ordered)
    labels,             \* dict name -> description       (insertion ordered)
    is_input_section,
    is_label_section,
    outcome,            \* "scanning" | "returned" (no path raises)
    \* ---- process_ascii_file / run_batch_processing
    meta,               \* what parse_sas_instructions returned
    records,            \* the lines of the extracted .dat file
    df,                 \* the DataFrame: [rows, origin]
    coerce_i,           \* position of the loop over meta['dtypes'].items()
    dstate,             \* where process_ascii_file stands
    exc,                \* the exception raised inside process_ascii_file
    dat_on_disk,        \* the extracted .dat file exists
    \* ---- ingest_group_data
    fs,                 \* fid -> [zip, sas]: state of the destination files
    fid,                \* index of the file being ingested
    phase,              \* "zip" | "sas" | "done": the loop being run
    url_i,              \* index of the next candidate URL
    zip_downloaded,
    success,
    accepted            \* what download_url last accepted: "none" | "fresh" | "exists"

parseVars  == <<text, colspecs, names, dtypes, labels,
                is_input_section, is_label_section, outcome>>
decodeVars == <<meta, records, df, coerce_i, dstate, exc, dat_on_disk>>
ingestVars == <<fs, fid, phase, url_i, zip_downloaded, success, accepted>>
vars       == <<parseVars, decodeVars, ingestVars>>

----------------------------------------------------------------------------
(* Bounds of the model.                                                    *)

MaxLines == 4

MaxSasLines == 3

MaxRecords == 2

MaxFiles == 2

\* Largest magnitude the claims look for in a numeric field.
MaxNumber == 99

----------------------------------------------------------------------------
(* Characters.                                                             *)

Range(s) == {s[i] : i \in 1..Len(s)}

DigitChars == <<"0", "1", "2", "3", "4", "5", "6", "7", "8", "9">>

\* \d
Digit == Range(DigitChars)

\* [A-Z0-9_]
NameChar == {"A", "B", "C", "D", "E", "G", "I", "L", "M", "N", "P", "S",
             "T", "U", "X", "Y", "Z", "_"} \cup Digit

\* \s, and what str.strip() removes
Whitespace == {" ", "\t", "\n", "\r"}

Quote == "\""

DigitVal(c) == CHOOSE d \in 0..9 : DigitChars[d + 1] = c

\* int(): the value of a non-empty run of digits
RECURSIVE int(_)
int(ds) ==
    IF Len(ds) = 0 THEN 0
    ELSE 10 * int(SubSeq(ds, 1, Len(ds) - 1)) + DigitVal(ds[Len(ds)])

\* str.strip(chars)
RECURSIVE lstrip(_, _)
lstrip(s, chars) ==
    IF Len(s) > 0 /\ s[1] \in chars THEN lstrip(Tail(s), chars) ELSE s

RECURSIVE rstrip(_, _)
rstrip(s, chars) ==
    IF Len(s) > 0 /\ s[Len(s)] \in chars
    THEN rstrip(SubSeq(s, 1, Len(s) - 1), chars) ELSE s

strip(s, chars) == rstrip(lstrip(s, chars), chars)

\* str.startswith
startswith(s, prefix) ==
    /\ Len(s) >= Len(prefix)
    /\ SubSeq(s, 1, Len(prefix)) = prefix

\* Length of the longest run of characters of class cls that starts at s[i]:
\* what a greedy cls* consumes there.
RECURSIVE RunLen(_, _, _)
RunLen(s, i, cls) ==
    IF i <= Len(s) /\ s[i] \in cls THEN 1 + RunLen(s, i + 1, cls) ELSE 0

----------------------------------------------------------------------------
(* Python dicts: insertion ordered, a repeated key overwrites in place.    *)

DictKeys(d) == [i \in 1..Len(d) |-> d[i][1]]

DictHas(d, k) == \E i \in 1..Len(d) : d[i][1] = k

DictGet(d, k) == d[CHOOSE i \in 1..Len(d) : d[i][1] = k][2]

DictSet(d, k, v) ==
    IF DictHas(d, k)
    THEN [i \in 1..Len(d) |-> IF d[i][1] = k THEN <<k, v>> ELSE d[i]]
    ELSE Append(d, <<k, v>>)

----------------------------------------------------------------------------
(* The two regular expressions of parse_sas_instructions.                  *)

NoMatch == [matched |-> FALSE, g1 |-> <<>>, g2 |-> <<>>, g3 |-> <<>>, g4 |-> <<>>]

\* @(\d+)\s+([A-Z0-9_]+)\s+(\$?)(\d+)\.  anchored at s[i].  Adjacent pieces
\* are over disjoint character classes, so the greedy runs are the only way
\* the pattern can match.
input_pattern_at(s, i) ==
    LET d1 == RunLen(s, i + 1, Digit)
        p  == i + 1 + d1
        w1 == RunLen(s, p, Whitespace)
        q  == p + w1
        n  == RunLen(s, q, NameChar)
        r  == q + n
        w2 == RunLen(s, r, Whitespace)
        t  == r + w2
        dl == IF t <= Len(s) /\ s[t] = "$" THEN 1 ELSE 0
        u  == t + dl
        d2 == RunLen(s, u, Digit)
        v  == u + d2
    IN  IF /\ i <= Len(s) /\ s[i] = "@"
           /\ d1 >= 1 /\ w1 >= 1 /\ n >= 1 /\ w2 >= 1 /\ d2 >= 1
           /\ v <= Len(s) /\ s[v] = "."
        THEN [matched |-> TRUE,
              g1 |-> SubSeq(s, i + 1, p - 1),
              g2 |-> SubSeq(s, q, r - 1),
              g3 |-> SubSeq(s, t, u - 1),
              g4 |-> SubSeq(s, u, v - 1)]
        ELSE NoMatch

\* Index of the last double quote of s (0 when there is none).
RECURSIVE LastQuote(_, _)
LastQuote(s, i) ==
    IF i = 0 THEN 0
    ELSE IF s[i] = Quote THEN i ELSE LastQuote(s, i - 1)

\* ([A-Z0-9_]+)\s*=\s*"(.*)"  anchored at s[i].  The greedy .* runs to the
\* last double quote of the line.
label_pattern_at(s, i) ==
    LET n  == RunLen(s, i, NameChar)
        p  == i + n
        w1 == RunLen(s, p, Whitespace)
        e  == p + w1
        w2 == RunLen(s, e + 1, Whitespace)
        o  == e + 1 + w2
        c  == LastQuote(s, Len(s))
    IN  IF /\ n >= 1
           /\ e <= Len(s) /\ s[e] = "="
           /\ o <= Len(s) /\ s[o] = Quote
           /\ c > o
        THEN [matched |-> TRUE,
              g1 |-> SubSeq(s, i, p - 1),
              g2 |-> SubSeq(s, o + 1, c - 1),
              g3 |-> <<>>, g4 |-> <<>>]
        ELSE NoMatch

\* pattern.search(line): the match at the leftmost position that has one.
RECURSIVE input_search(_, _)
input_search(s, i) ==
    IF i > Len(s) THEN NoMatch
    ELSE IF input_pattern_at(s, i).matched THEN input_pattern_at(s, i)
    ELSE input_search(s, i + 1)

RECURSIVE label_search(_, _)
label_search(s, i) ==
    IF i > Len(s) THEN NoMatch
    ELSE IF label_pattern_at(s, i).matched THEN label_pattern_at(s, i)
    ELSE label_search(s, i + 1)

----------------------------------------------------------------------------
(* parse_sas_instructions: the body of `for line in f`.                    *)

\* The accumulators and the two section flags before the first line.
parse_init ==
    [colspecs |-> <<>>, names |-> <<>>, dtypes |-> <<>>, labels |-> <<>>,
     is_input_section |-> FALSE, is_label_section |-> FALSE]

KwINPUT == <<"I", "N", "P", "U", "T">>

KwLABEL == <<"L", "A", "B", "E", "L">>

KwEND == <<";">>

\* Mutant of detect_section: LABEL does not close the input section.
detect_section_keeps_input(st, line) ==
    IF startswith(line, KwINPUT)
    THEN [hit |-> TRUE,
          st  |-> [st EXCEPT !.is_input_section = TRUE,
                             !.is_label_section = FALSE]]
    ELSE IF startswith(line, KwLABEL)
    THEN [hit |-> TRUE,
          st  |-> [st EXCEPT !.is_label_section = TRUE]]
    ELSE IF startswith(line, KwEND)
    THEN [hit |-> TRUE,
          st  |-> [st EXCEPT !.is_input_section = FALSE,
                             !.is_label_section = FALSE]]
    ELSE [hit |-> FALSE, st |-> st]

\* "Detect Sections": whether the stripped line is consumed as a marker
\* (the `continue`), and the flags after it.
detect_section(st, line) ==
    IF startswith(line, KwINPUT)
    THEN [hit |-> TRUE,
          st  |-> [st EXCEPT !.is_input_section = TRUE,
                             !.is_label_section = FALSE]]
    ELSE IF startswith(line, KwLABEL)
    THEN [hit |-> TRUE,
          st  |-> [st EXCEPT !.is_label_section = TRUE,
                             !.is_input_section = FALSE]]
    ELSE IF startswith(line, KwEND)
    THEN [hit |-> TRUE,
          st  |-> [st EXCEPT !.is_input_section = FALSE,
                             !.is_label_section = FALSE]]
    ELSE [hit |-> FALSE, st |-> st]

\* Mutant of start_py: the start is left 1-based.
start_py_one_based(start_sas) == start_sas

\* Convert SAS 1-based start to Python 0-based start.
start_py(start_sas) == start_sas - 1

end_py(start_sas, length) == start_py(start_sas) + length

\* Store dtype preference.
dtype_of(is_char) == IF is_char THEN "str" ELSE "float32"

\* "Parse INPUT section"
parse_input(st, line) ==
    LET match == input_search(line, 1)
        start_sas == int(match.g1)
        var_name  == match.g2
        is_char   == (match.g3 = <<"$">>)
        length    == int(match.g4)
    IN  IF st.is_input_section /\ match.matched
        THEN [st EXCEPT
                !.colspecs = Append(@, <<start_py(start_sas),
                                         end_py(start_sas, length)>>),
                !.names    = Append(@, var_name),
                !.dtypes   = DictSet(@, var_name, dtype_of(is_char))]
        ELSE st

\* Mutant of parse_label: a description is kept only for a name already
\* declared.
parse_label_if_declared(st, line) ==
    LET match == label_search(line, 1)
    IN  IF st.is_label_section /\ match.matched
           /\ match.g1 \in Range(st.names)
        THEN [st EXCEPT !.labels = DictSet(@, match.g1, match.g2)]
        ELSE st

\* "Parse LABEL section"
parse_label(st, line) ==
    LET match == label_search(line, 1)
    IN  IF st.is_label_section /\ match.matched
        THEN [st EXCEPT !.labels = DictSet(@, match.g1, match.g2)]
        ELSE st

\* One iteration of the loop on a line as the file yields it (with its
\* line terminator).
parse_line(st, raw) ==
    LET line == strip(raw, Whitespace)
        sec  == detect_section(st, line)
    IN  IF sec.hit THEN sec.st
        ELSE parse_label(parse_input(st, line), line)

\* The whole function on a file given as its lines: the returned dict.
RECURSIVE parse_loop(_, _)
parse_loop(st, lines) ==
    IF Len(lines) = 0 THEN st
    ELSE parse_loop(parse_line(st, Append(Head(lines), "\n")), Tail(lines))

parse_sas_instructions(lines) ==
    LET st == parse_loop(parse_init, lines)
    IN  [colspecs |-> st.colspecs, names |-> st.names,
         dtypes |-> st.dtypes, labels |-> st.labels]

----------------------------------------------------------------------------
(* The SAS files the model reads: every sequence of at most MaxLines lines *)
(* of Vocabulary.  A line is written out from the fields it is meant to    *)
(* carry, so that what the parser extracts can be compared with them.      *)

RECURSIVE NatToDigits(_)
NatToDigits(n) ==
    IF n < 10 THEN <<DigitChars[n + 1]>>
    ELSE NatToDigits(n \div 10) \o <<DigitChars[(n % 10) + 1]>>

ID == <<"I", "D">>

AGE == <<"A", "G", "E">>

ZZ == <<"Z", "Z">>

LABELS == <<"L", "A", "B", "E", "L", "S">>

NoDirective == [N |-> 0, NAME |-> <<>>, dollar |-> FALSE, W |-> 0]

NoDescription == [NAME |-> <<>>, desc |-> <<>>]

\* `@N NAME $W.` / `@N NAME W.`, after `lead` blanks
FormatDirective(lead, d) ==
    lead \o <<"@">> \o NatToDigits(d.N) \o <<" ">> \o d.NAME \o <<" ">>
         \o (IF d.dollar THEN <<"$">> ELSE <<>>) \o NatToDigits(d.W) \o <<".">>

\* `NAME = "text"`, with `gap` on both sides of the equals sign
FormatDescription(gap, l) ==
    l.NAME \o gap \o <<"=">> \o gap \o <<Quote>> \o l.desc \o <<Quote>>

DirID == [N |-> 1, NAME |-> ID, dollar |-> TRUE, W |-> 3]

DirAGE == [N |-> 4, NAME |-> AGE, dollar |-> FALSE, W |-> 2]

DirID2 == [N |-> 10, NAME |-> ID, dollar |-> TRUE, W |-> 12]

DescID == [NAME |-> ID, desc |-> <<"k", "e", "y">>]

\* A second description of ID, with a double quote inside the text.
DescID2 == [NAME |-> ID, desc |-> <<"a", Quote, "b">>]

DescZZ == [NAME |-> ZZ, desc |-> <<"x">>]

DescLABELS == [NAME |-> LABELS, desc |-> <<"t">>]

\* marker: the section marker the line begins with ("none": it begins with
\* none); dir / desc: the directive or description written on the line.
Vocabulary ==
    << [raw |-> KwINPUT \o <<" ">> \o FormatDirective(<<>>, DirID),
        marker |-> "INPUT", isdir |-> TRUE, dir |-> DirID,
        isdesc |-> FALSE, d |-> NoDescription],
       [raw |-> KwLABEL,
        marker |-> "LABEL", isdir |-> FALSE, dir |-> NoDirective,
        isdesc |-> FALSE, d |-> NoDescription],
       [raw |-> KwEND,
        marker |-> "END", isdir |-> FALSE, dir |-> NoDirective,
        isdesc |-> FALSE, d |-> NoDescription],
       [raw |-> FormatDirective(<<>>, DirID),
        marker |-> "none", isdir |-> TRUE, dir |-> DirID,
        isdesc |-> FALSE, d |-> NoDescription],
       [raw |-> FormatDirective(<<" ", " ">>, DirAGE),
        marker |-> "none", isdir |-> TRUE, dir |-> DirAGE,
        isdesc |-> FALSE, d |-> NoDescription],
       [raw |-> FormatDirective(<<>>, DirID2),
        marker |-> "none", isdir |-> TRUE, dir |-> DirID2,
        isdesc |-> FALSE, d |-> NoDescription],
       [raw |-> FormatDescription(<<" ">>, DescID),
        marker |-> "none", isdir |-> FALSE, dir |-> NoDirective,
        isdesc |-> TRUE, d |-> DescID],
       [raw |-> FormatDescription(<<" ">>, DescID2),
        marker |-> "none", isdir |-> FALSE, dir |-> NoDirective,
        isdesc |-> TRUE, d |-> DescID2],
       [raw |-> FormatDescription(<<>>, DescZZ),
        marker |-> "none", isdir |-> FALSE, dir |-> NoDirective,
        isdesc |-> TRUE, d |-> DescZZ],
       [raw |-> FormatDescription(<<" ">>, DescLABELS),
        marker |-> "LABEL", isdir |-> FALSE, dir |-> NoDirective,
        isdesc |-> TRUE, d |-> DescLABELS] >>

Lines == {Vocabulary[i].raw : i \in 1..Len(Vocabulary)}

\* The vocabulary entry a line was written from.
Entry(raw) == CHOOSE e \in Range(Vocabulary) : e.raw = raw

----------------------------------------------------------------------------
(* Specification Spec: parse_sas_instructions, line by line.               *)

ParseInit ==
    /\ text = <<>>
    /\ colspecs = parse_init.colspecs
    /\ names = parse_init.names
    /\ dtypes = parse_init.dtypes
    /\ labels = parse_init.labels
    /\ is_input_section = parse_init.is_input_section
    /\ is_label_section = parse_init.is_label_section
    /\ outcome = "scanning"

DecodeIdle ==
    /\ meta = [colspecs |-> <<>>, names |-> <<>>, dtypes |-> <<>>, labels |-> <<>>]
    /\ records = <<>>
    /\ df = [rows |-> <<>>, origin |-> <<>>]
    /\ coerce_i = 0
    /\ dstate = "idle"
    /\ exc = "none"
    /\ dat_on_disk = FALSE

IngestIdle ==
    /\ fs = <<>>
    /\ fid = 0
    /\ phase = "idle"
    /\ url_i = 0
    /\ zip_downloaded = FALSE
    /\ success = FALSE
    /\ accepted = "none"

Init == ParseInit /\ DecodeIdle /\ IngestIdle

\* `for line in f`: the next line of the file goes through the loop body.
ReadLine ==
    /\ outcome = "scanning"
    /\ Len(text) < MaxLines
    /\ \E raw \in Lines :
         LET st == parse_line(
                     [colspecs |-> colspecs, names |-> names,
                      dtypes |-> dtypes, labels |-> labels,
                      is_input_section |-> is_input_section,
                      is_label_section |-> is_label_section],
                     Append(raw, "\n"))
         IN  /\ text' = Append(text, raw)
             /\ colspecs' = st.colspecs
             /\ names' = st.names
             /\ dtypes' = st.dtypes
             /\ labels' = st.labels
             /\ is_input_section' = st.is_input_section
             /\ is_label_section' = st.is_label_section
    /\ UNCHANGED <<outcome, decodeVars, ingestVars>>

\* End of file: `return {...}`.  No path of the function raises.
Return ==
    /\ outcome = "scanning"
    /\ outcome' = "returned"
    /\ UNCHANGED <<text, colspecs, names, dtypes, labels,
                   is_input_section, is_label_section, decodeVars, ingestVars>>

Next == ReadLine \/ Return

Spec == Init /\ [][Next]_vars

----------------------------------------------------------------------------
(* pandas, as process_ascii_file uses it: read_fwf(colspecs=..., names=..., *)
(* header=None, dtype=str) and to_numeric(errors='coerce').                *)

\* A cell of the DataFrame: NaN, a str, or a number.
NaN == [t |-> "nan", s |-> <<>>, n |-> 0]

StrCell(s) == [t |-> "str", s |-> s, n |-> 0]

NumCell(n) == [t |-> "num", s |-> <<>>, n |-> n]

\* A byte that is not valid UTF-8, the encoding read_fwf opens the file with.
BadByte == "<FF>"

\* s[start:stop]
PySlice(s, start, stop) ==
    LET n  == Len(s)
        lo == IF start < 0 THEN (IF start + n < 0 THEN 0 ELSE start + n)
              ELSE (IF start > n THEN n ELSE start)
        hi == IF stop < 0 THEN (IF stop + n < 0 THEN 0 ELSE stop + n)
              ELSE (IF stop > n THEN n ELSE stop)
    IN  IF lo < hi THEN SubSeq(s, lo + 1, hi) ELSE <<>>

\* The strings the parser reads as NaN (keep_default_na), dtype=str or not.
STR_NA_VALUES ==
    {<<>>,
     <<"#", "N", "/", "A">>,
     <<"#", "N", "/", "A", " ", "N", "/", "A">>,
     <<"#", "N", "A">>,
     <<"-", "1", ".", "#", "I", "N", "D">>,
     <<"-", "1", ".", "#", "Q", "N", "A", "N">>,
     <<"-", "N", "a", "N">>,
     <<"-", "n", "a", "n">>,
     <<"1", ".", "#", "I", "N", "D">>,
     <<"1", ".", "#", "Q", "N", "A", "N">>,
     <<"<", "N", "A", ">">>,
     <<"N", "/", "A">>,
     <<"N", "A">>,
     <<"N", "U", "L", "L">>,
     <<"N", "a", "N">>,
     <<"N", "o", "n", "e">>,
     <<"n", "/", "a">>,
     <<"n", "a", "n">>,
     <<"n", "u", "l", "l">>}

\* Mutant of na_filter: the default NaN strings are not applied.
na_filter_off(s) == StrCell(s)

na_filter(s) == IF s \in STR_NA_VALUES THEN NaN ELSE StrCell(s)

\* FixedWidthReader.__next__: the fields of one line, cut at the colspecs
\* and stripped of the delimiter characters.
fwf_fields(line, specs) ==
    [j \in 1..Len(specs) |->
        strip(PySlice(line, specs[j][1], specs[j][2]), Whitespace)]

\* skip_blank_lines: a line all of whose fields are empty is dropped.
is_empty_line(fields) == \A j \in 1..Len(fields) : fields[j] = <<>>

\* The indices of the lines that make rows, in file order.
RECURSIVE kept_lines(_, _, _)
kept_lines(lines, specs, i) ==
    IF i > Len(lines) THEN <<>>
    ELSE IF is_empty_line(fwf_fields(Append(lines[i], "\n"), specs))
    THEN kept_lines(lines, specs, i + 1)
    ELSE <<i>> \o kept_lines(lines, specs, i + 1)

has_duplicates(ns) == \E j, k \in 1..Len(ns) : j # k /\ ns[j] = ns[k]

\* pd.read_fwf: the exception it raises ("none": it returns), and the frame.
\* origin[r] is the line of the file row r was read from.
read_fwf(lines, specs, ns) ==
    IF has_duplicates(ns)
    THEN [exc |-> "ValueError", rows |-> <<>>, origin |-> <<>>]
    ELSE IF \E i \in 1..Len(lines) : BadByte \in Range(lines[i])
    THEN [exc |-> "UnicodeDecodeError", rows |-> <<>>, origin |-> <<>>]
    ELSE IF Len(ns) = 0
    THEN [exc |-> "EmptyDataError", rows |-> <<>>, origin |-> <<>>]
    ELSE LET kept == kept_lines(lines, specs, 1)
         IN  [exc |-> "none",
              rows |-> [r \in 1..Len(kept) |->
                          LET f == fwf_fields(Append(lines[kept[r]], "\n"), specs)
                          IN  [j \in 1..Len(f) |-> na_filter(f[j])]],
              origin |-> kept]

SignChars == {"+", "-"}

\* pd.to_numeric(errors='coerce') on one cell: NaN stays NaN, a string that
\* is an optionally signed run of digits becomes its value, any other
\* string becomes NaN.
to_numeric(cell) ==
    IF cell.t # "str" THEN cell
    ELSE LET s    == strip(cell.s, Whitespace)
             sg   == IF Len(s) > 0 /\ s[1] \in SignChars THEN 1 ELSE 0
             body == SubSeq(s, sg + 1, Len(s))
         IN  IF Len(body) >= 1 /\ RunLen(body, 1, Digit) = Len(body)
             THEN NumCell(IF sg = 1 /\ s[1] = "-" THEN 0 - int(body) ELSE int(body))
             ELSE NaN

\* Index of column col of the frame.
col_index(ns, col) == CHOOSE j \in 1..Len(ns) : ns[j] = col

\* Mutant of needs_coercion: every column is coerced.
needs_coercion_always(dtype) == TRUE

\* `if dtype == 'float32'`
needs_coercion(dtype) == dtype = "float32"

\* One iteration of `for col, dtype in meta['dtypes'].items()`.
coerce_column(rows, ns, col, dtype) ==
    IF needs_coercion(dtype)
    THEN [r \in 1..Len(rows) |->
            [rows[r] EXCEPT ![col_index(ns, col)] = to_numeric(@)]]
    ELSE rows

----------------------------------------------------------------------------
(* Specification SpecDecode: process_ascii_file, called by                 *)
(* run_batch_processing for one dataset.                                   *)

\* The SAS files and the .dat files of the model.
SasFiles == UNION {[1..k -> Lines] : k \in 0..MaxSasLines}

RecordLines ==
    {<<"A", "B", "C", "4", "2">>,
     <<"X", "Y", " ", "-", "1">>,
     <<"A", "B">>,
     <<"A", "B", "C", "4">>,
     <<" ", " ", " ">>,
     <<"N", "A", " ", "4", "X">>,
     <<"A", "B", "C", " ", "7", "Z">>,
     <<"A", "B", BadByte, "4", "2">>}

DatFiles == UNION {[1..k -> RecordLines] : k \in 0..MaxRecords}

DecodeInit ==
    /\ meta = [colspecs |-> <<>>, names |-> <<>>, dtypes |-> <<>>, labels |-> <<>>]
    /\ records = <<>>
    /\ df = [rows |-> <<>>, origin |-> <<>>]
    /\ coerce_i = 0
    /\ dstate = "start"
    /\ exc = "none"
    /\ dat_on_disk = FALSE

ParseIdle ==
    /\ text = <<>>
    /\ colspecs = <<>>
    /\ names = <<>>
    /\ dtypes = <<>>
    /\ labels = <<>>
    /\ is_input_section = FALSE
    /\ is_label_section = FALSE
    /\ outcome = "idle"

InitDecode == ParseIdle /\ DecodeInit /\ IngestIdle

\* 1. Parse Metadata
ParseMetadata ==
    /\ dstate = "start"
    /\ \E sas \in SasFiles : meta' = parse_sas_instructions(sas)
    /\ dstate' = "parsed"
    /\ UNCHANGED <<records, df, coerce_i, exc, dat_on_disk, parseVars, ingestVars>>

\* 2. Extract .dat file from zip
ExtractDat ==
    /\ dstate = "parsed"
    /\ \E dat \in DatFiles : records' = dat
    /\ dat_on_disk' = TRUE
    /\ dstate' = "extracted"
    /\ UNCHANGED <<meta, df, coerce_i, exc, parseVars, ingestVars>>

\* 3. pd.read_fwf inside the try block
ReadFwf ==
    /\ dstate = "extracted"
    /\ LET res == read_fwf(records, meta.colspecs, meta.names)
       IN  /\ exc' = res.exc
           /\ df' = [rows |-> res.rows, origin |-> res.origin]
           /\ dstate' = IF res.exc = "none" THEN "read" ELSE "raising"
    /\ coerce_i' = 1
    /\ UNCHANGED <<meta, records, dat_on_disk, parseVars, ingestVars>>

\* "Convert numeric columns": one item of meta['dtypes']
CoerceColumn ==
    /\ dstate = "read"
    /\ coerce_i <= Len(meta.dtypes)
    /\ df' = [df EXCEPT !.rows = coerce_column(@, meta.names,
                                               meta.dtypes[coerce_i][1],
                                               meta.dtypes[coerce_i][2])]
    /\ coerce_i' = coerce_i + 1
    /\ UNCHANGED <<meta, records, dstate, exc, dat_on_disk, parseVars, ingestVars>>

\* The loop is over: "Loaded n rows, m columns."
Loaded ==
    /\ dstate = "read"
    /\ coerce_i > Len(meta.dtypes)
    /\ dstate' = "loaded"
    /\ UNCHANGED <<meta, records, df, coerce_i, exc, dat_on_disk, parseVars, ingestVars>>

\* 4. Save to Parquet
SaveParquet ==
    /\ dstate = "loaded"
    /\ dstate' = "saved"
    /\ UNCHANGED <<meta, records, df, coerce_i, exc, dat_on_disk, parseVars, ingestVars>>

\* 5. finally: remove the .dat file, on the way out or with the exception
\* in flight, which run_batch_processing then catches and prints.
Cleanup ==
    /\ dstate \in {"saved", "raising"}
    /\ dat_on_disk' = FALSE
    /\ dstate' = IF dstate = "saved" THEN "done" ELSE "error"
    /\ UNCHANGED <<meta, records, df, coerce_i, exc, parseVars, ingestVars>>

NextDecode ==
    \/ ParseMetadata
    \/ ExtractDat
    \/ ReadFwf
    \/ CoerceColumn
    \/ Loaded
    \/ SaveParquet
    \/ Cleanup

SpecDecode == InitDecode /\ [][NextDecode]_vars

----------------------------------------------------------------------------
(* What the text read so far says, told from the vocabulary entries the    *)
(* lines were written from (not from what the parser made of them).        *)

\* The scanner mode the marker lines of t call for.
RECURSIVE ModeAfter(_)
ModeAfter(t) ==
    IF Len(t) = 0 THEN "Idle"
    ELSE LET m == Entry(t[Len(t)]).marker
         IN  IF m = "INPUT" THEN "ScanningFieldDirectives"
             ELSE IF m = "LABEL" THEN "ScanningDescriptions"
             ELSE IF m = "END" THEN "Idle"
             ELSE ModeAfter(SubSeq(t, 1, Len(t) - 1))

ModeBefore(i) == ModeAfter(SubSeq(text, 1, i - 1))

\* Line i is a directive line scanned while the field-directive section is open.
DeclaredAt(i) ==
    /\ Entry(text[i]).isdir
    /\ Entry(text[i]).marker = "none"
    /\ ModeBefore(i) = "ScanningFieldDirectives"

\* Line i is a description line scanned while the description section is open.
DescribedAt(i) ==
    /\ Entry(text[i]).isdesc
    /\ Entry(text[i]).marker = "none"
    /\ ModeBefore(i) = "ScanningDescriptions"

Declarations == {i \in 1..Len(text) : DeclaredAt(i)}

DeclarationsOf(name) == {i \in Declarations : Entry(text[i]).dir.NAME = name}

Min(S) == CHOOSE x \in S : \A y \in S : x <= y

Max(S) == CHOOSE x \in S : \A y \in S : x >= y

Kind(dollar) == IF dollar THEN "str" ELSE "float32"

\* The step reads the line written from entry e.
Reads(e) == outcome = "scanning" /\ text' = Append(text, e.raw)

----------------------------------------------------------------------------
(* C1: every directive line `@N NAME $W.` / `@N NAME W.` scanned while the *)
(* field-directive section is open appends exactly one column, with start  *)
(* offset N-1, end offset N-1+W, and kind 'str' iff the `$` is present     *)
(* ('float32' otherwise).                                                  *)
C1_DirectiveAppendsColumn ==
    [][\A e \in Range(Vocabulary) :
         (Reads(e) /\ e.isdir /\ e.marker = "none"
            /\ ModeAfter(text) = "ScanningFieldDirectives")
         => /\ names' = Append(names, e.dir.NAME)
            /\ colspecs' = Append(colspecs,
                                  <<e.dir.N - 1, e.dir.N - 1 + e.dir.W>>)
            /\ DictHas(dtypes', e.dir.NAME)
            /\ DictGet(dtypes', e.dir.NAME) = Kind(e.dir.dollar)]_vars

\* C1's case: `  @4 AGE 2.` was scanned in the open section after `@1 ID $3.`
C1_Witness ==
    /\ Len(text) = 3
    /\ text[2] = FormatDirective(<<>>, DirID)
    /\ text[3] = FormatDirective(<<" ", " ">>, DirAGE)
    /\ DeclaredAt(2) /\ DeclaredAt(3)
    /\ names = <<ID, AGE>>
    /\ colspecs = <<<<0, 3>>, <<3, 5>>>>
    /\ dtypes = <<<<ID, "str">>, <<AGE, "float32">>>>

(* C2: the returned schema holds each column name exactly once, in order   *)
(* of first appearance, and the single entry of a name declared more than  *)
(* once carries the offsets and kind of its last declaration.              *)
C2_EachNameOnce ==
    outcome = "returned" =>
      /\ \A j, k \in 1..Len(names) : names[j] = names[k] => j = k
      /\ Range(names) = {Entry(text[i]).dir.NAME : i \in Declarations}
      /\ \A j, k \in 1..Len(names) :
           j < k => Min(DeclarationsOf(names[j])) < Min(DeclarationsOf(names[k]))
      /\ \A j \in 1..Len(names) :
           LET last == Entry(text[Max(DeclarationsOf(names[j]))]).dir
           IN  /\ colspecs[j] = <<last.N - 1, last.N - 1 + last.W>>
               /\ DictGet(dtypes, names[j]) = Kind(last.dollar)

(* C3: a grammar text from which zero field directives are recognized      *)
(* makes the parse fail (GrammarParseError): nothing is returned.          *)
C3_NoDirectivesRaises ==
    (outcome # "scanning" /\ Declarations = {}) => outcome = "raised"

(* C4: the input-section and label-section flags are never both set; the   *)
(* mode is ScanningFieldDirectives iff the most recent marker line began   *)
(* with INPUT, ScanningDescriptions iff it began with LABEL, Idle          *)
(* initially and after a line beginning with `;`.  A marker line adds      *)
(* nothing, columns are added only in ScanningFieldDirectives and          *)
(* descriptions only in ScanningDescriptions, so a line seen in Idle adds  *)
(* neither.                                                                *)
C4_ScannerModes ==
    /\ [](/\ ~(is_input_section /\ is_label_section)
          /\ is_input_section <=> (ModeAfter(text) = "ScanningFieldDirectives")
          /\ is_label_section <=> (ModeAfter(text) = "ScanningDescriptions"))
    /\ [][\A e \in Range(Vocabulary) :
            Reads(e) =>
              /\ (e.marker # "none" \/ ModeAfter(text) # "ScanningFieldDirectives")
                   => UNCHANGED <<colspecs, names, dtypes>>
              /\ (e.marker # "none" \/ ModeAfter(text) # "ScanningDescriptions")
                   => UNCHANGED labels]_vars

\* C4's case: `INPUT @1 ID $3.` opened the section without declaring ID,
\* `  @4 AGE 2.` was scanned in it, `;` closed it and a description line
\* seen in Idle left no description.
C4_Witness ==
    /\ Len(text) = 4
    /\ Entry(text[1]).marker = "INPUT" /\ Entry(text[1]).isdir
    /\ text[2] = FormatDirective(<<" ", " ">>, DirAGE)
    /\ text[3] = KwEND
    /\ text[4] = FormatDescription(<<" ">>, DescID)
    /\ names = <<AGE>>
    /\ labels = <<>>
    /\ ~is_input_section /\ ~is_label_section

----------------------------------------------------------------------------
(* What a record says, told from its characters by position (not by the    *)
(* reader's slicing, stripping and parsing).                               *)

Blank == {" ", "\t"}

Min2(a, b) == IF a < b THEN a ELSE b

\* The characters of rec at offsets [spec[1], spec[2]), as far as rec goes.
ClaimSlice(rec, spec) ==
    LET hi == Min2(spec[2], Len(rec))
    IN  IF hi > spec[1] THEN [k \in 1..(hi - spec[1]) |-> rec[spec[1] + k]]
        ELSE <<>>

\* s without its leading and trailing blanks.
Trimmed(s) ==
    LET nonblank == {i \in 1..Len(s) : s[i] \notin Blank}
    IN  IF nonblank = {} THEN <<>>
        ELSE [k \in 1..(Max(nonblank) - Min(nonblank) + 1) |->
                s[Min(nonblank) + k - 1]]

Zeros(z) == [k \in 1..z |-> "0"]

\* t is an optionally signed decimal numeral.
IsDecimal(t) ==
    LET sg == IF Len(t) > 0 /\ t[1] \in {"+", "-"} THEN 1 ELSE 0
    IN  /\ Len(t) > sg
        /\ \A k \in (sg + 1)..Len(t) : t[k] \in Digit

\* The number the decimal numeral t denotes: the m whose rendering, after
\* leading zeros, is t's digits.
Denoted(t) ==
    LET sg == IF t[1] \in {"+", "-"} THEN 1 ELSE 0
        ds == [k \in 1..(Len(t) - sg) |-> t[sg + k]]
        m  == CHOOSE m \in 0..MaxNumber :
                \E z \in 0..Len(ds) : ds = Zeros(z) \o NatToDigits(m)
    IN  IF t[1] = "-" THEN 0 - m ELSE m

ExpectedNumeric(t) == IF IsDecimal(t) THEN NumCell(Denoted(t)) ELSE NaN

ExpectedText(t) == IF t \in STR_NA_VALUES THEN NaN ELSE StrCell(t)

KindOf(j) == DictGet(meta.dtypes, meta.names[j])

\* The frame is complete: read and coerced.
FrameLoaded == dstate \in {"loaded", "saved", "done"}

Cells == {<<r, j>> : r \in 1..Len(df.rows), j \in 1..Len(meta.names)}

RecordOf(r) == records[df.origin[r]]

HasBadByte(i) == BadByte \in Range(records[i])

SchemaUsable == Len(meta.names) > 0 /\ ~has_duplicates(meta.names)

----------------------------------------------------------------------------
C7_NumericCoercion ==
    /\ [](FrameLoaded =>
            \A c \in Cells :
              KindOf(c[2]) = "float32"
                => df.rows[c[1]][c[2]] =
                     ExpectedNumeric(Trimmed(ClaimSlice(RecordOf(c[1]),
                                                        meta.colspecs[c[2]]))))
    /\ [][dstate = "read" =>
            /\ dstate' \in {"read", "loaded"}
            /\ exc' = "none"
            /\ Len(df'.rows) = Len(df.rows)
            /\ \A c \in Cells :
                 KindOf(c[2]) = "str"
                   => df'.rows[c[1]][c[2]] = df.rows[c[1]][c[2]]]_vars

\* C7's case: `-1` became -1, `4X` became missing, the Text cells stayed.
C7_Witness ==
    /\ FrameLoaded
    /\ meta.names = <<ID, AGE>>
    /\ records = << <<"X", "Y", " ", "-", "1">>, <<"N", "A", " ", "4", "X">> >>
    /\ df.rows = << <<StrCell(<<"X", "Y">>), NumCell(0 - 1)>>,
                    <<NaN, NaN>> >>

(* C8: the decoded table has one column per ColumnSpec and one row per     *)
(* input record, row i read from record i: no record is dropped, merged or *)
(* reordered.                                                              *)
C8_OneRowPerRecord ==
    FrameLoaded =>
      /\ Len(df.rows) = Len(records)
      /\ \A r \in 1..Len(df.rows) :
           /\ Len(df.rows[r]) = Len(meta.colspecs)
           /\ df.origin[r] = r

(* C9: a record that cannot be decoded costs only its own row: the decode  *)
(* pass still completes and delivers a table with a row for every record,  *)
(* the undecodable ones all-missing.                                       *)
C9_BadRecordRecovered ==
    (SchemaUsable /\ dstate \in {"done", "error"}
       /\ \E i \in 1..Len(records) : HasBadByte(i))
      => /\ dstate = "done"
         /\ \A i \in 1..Len(records) :
              HasBadByte(i)
                => \E r \in 1..Len(df.rows) :
                     /\ df.origin[r] = i
                     /\ \A j \in 1..Len(df.rows[r]) : df.rows[r][j] = NaN

----------------------------------------------------------------------------
(* Specification SpecIngest: ingest_group_data.                            *)

\* zip_patterns
NumZipPatterns == 3

\* extensions
NumExtensions == 5

\* URLs appended to sas_patterns per extension
PatternsPerExtension == 3

NumSasPatterns == NumExtensions * PatternsPerExtension

\* What can happen to one GET: requests.get raises, raise_for_status raises,
\* iter_content raises after the destination was opened, or the body is
\* written out in full.
Outcomes == {"conn_error", "http_error", "stream_error", "ok"}

\* A destination path: "absent", "preexisting" (there before the run),
\* "partial" (opened by a download that then failed), "complete".
\* download_url(url, dest_path) on a destination in state `file`.
download_url(file, got) ==
    IF file # "absent"
    THEN [ret |-> TRUE, file |-> file, said |-> "exists"]
    ELSE IF got = "ok"
    THEN [ret |-> TRUE, file |-> "complete", said |-> "fresh"]
    ELSE IF got = "stream_error"
    THEN [ret |-> FALSE, file |-> "partial", said |-> "none"]
    ELSE [ret |-> FALSE, file |-> "absent", said |-> "none"]

IngestInit ==
    /\ fs \in [1..MaxFiles -> [zip : {"absent", "preexisting"},
                               sas : {"absent", "preexisting"}]]
    /\ fid = 1
    /\ phase = "zip"
    /\ url_i = 1
    /\ zip_downloaded = FALSE
    /\ success = FALSE
    /\ accepted = "none"

InitIngest == ParseIdle /\ DecodeIdle /\ IngestInit

\* `for url in zip_patterns: if download_url(url, zip_dest): ... break`
TryZipUrl ==
    /\ phase = "zip" /\ fid <= MaxFiles
    /\ ~zip_downloaded /\ url_i <= NumZipPatterns
    /\ \E o \in Outcomes :
         LET res == download_url(fs[fid].zip, o)
         IN  /\ fs' = [fs EXCEPT ![fid].zip = res.file]
             /\ zip_downloaded' = res.ret
             /\ accepted' = res.said
             /\ url_i' = IF res.ret THEN url_i ELSE url_i + 1
    /\ UNCHANGED <<fid, phase, success, parseVars, decodeVars>>

\* `if not zip_downloaded: ... continue`
ZipNotFound ==
    /\ phase = "zip" /\ fid <= MaxFiles
    /\ ~zip_downloaded /\ url_i > NumZipPatterns
    /\ fid' = fid + 1
    /\ url_i' = 1
    /\ accepted' = "none"
    /\ UNCHANGED <<fs, phase, zip_downloaded, success, parseVars, decodeVars>>

\* The zip is there: on to the SAS statements.
ZipFound ==
    /\ phase = "zip" /\ fid <= MaxFiles
    /\ zip_downloaded
    /\ phase' = "sas"
    /\ url_i' = 1
    /\ success' = FALSE
    /\ UNCHANGED <<fs, fid, zip_downloaded, accepted, parseVars, decodeVars>>

\* `for url in sas_patterns: if download_url(url, sas_dest): ... break`
TrySasUrl ==
    /\ phase = "sas"
    /\ ~success /\ url_i <= NumSasPatterns
    /\ \E o \in Outcomes :
         LET res == download_url(fs[fid].sas, o)
         IN  /\ fs' = [fs EXCEPT ![fid].sas = res.file]
             /\ success' = res.ret
             /\ accepted' = res.said
             /\ url_i' = IF res.ret THEN url_i ELSE url_i + 1
    /\ UNCHANGED <<fid, phase, zip_downloaded, parseVars, decodeVars>>

\* The SAS loop is over (found or not): sleep, next file.
NextFile ==
    /\ phase = "sas"
    /\ success \/ url_i > NumSasPatterns
    /\ fid' = fid + 1
    /\ phase' = "zip"
    /\ url_i' = 1
    /\ zip_downloaded' = FALSE
    /\ success' = FALSE
    /\ accepted' = "none"
    /\ UNCHANGED <<fs, parseVars, decodeVars>>

\* all_files is exhausted.
IngestDone ==
    /\ phase = "zip" /\ fid > MaxFiles
    /\ phase' = "done"
    /\ UNCHANGED <<fs, fid, url_i, zip_downloaded, success, accepted,
                   parseVars, decodeVars>>

NextIngest ==
    \/ TryZipUrl
    \/ ZipNotFound
    \/ ZipFound
    \/ TrySasUrl
    \/ NextFile
    \/ IngestDone

SpecIngest == InitIngest /\ [][NextIngest]_vars

(* C10: a file is treated as obtained (download_url returned True, the     *)
(* loop stopped, the SAS download is attempted after the zip) only if its  *)
(* destination holds a complete body or existed before the run: a download *)
(* that failed part-way is never accepted later as 'already exists'.       *)
C10_AcceptedOnlyIfComplete ==
    /\ (phase \in {"zip", "sas"} /\ fid <= MaxFiles /\ zip_downloaded)
         => fs[fid].zip \in {"complete", "preexisting"}
    /\ (phase = "sas" /\ success)
         => fs[fid].sas \in {"complete", "preexisting"}

============================================================================
